---- MODULE Spec2Model ----
(***************************************************************************)
(* Model of poker_battle.py: the match/hand lifecycle run by game_loop and *)
(* play_poker_hand on the shared dict game_state, together with the HTTP   *)
(* handlers start_game / stop_game and the module-load auto-start that     *)
(* write the same dict from other threads.                                 *)
(*                                                                         *)
(* Threads.  CPython runs one bytecode at a time, so every store into      *)
(* game_state is atomic and another thread can run between any two of      *)
(* them.  The lifecycle thread is cut into steps (pc) at the stores that   *)
(* matter to another thread or to a reader: the reads of is_playing and    *)
(* wait_for_new_game, every tick of the two timers, and each store of a    *)
(* stack.  Every state of the model is therefore a state that get_state    *)
(* can serialise.                                                          *)
(*                                                                         *)
(* Environment.  The rules engine (pypokerengine.start_poker) is not part  *)
(* of the repository.  It is modelled as a nondeterministic choice: it     *)
(* calls declare_action some number of times and then either raises or     *)
(* returns two final stacks that sum to twice the initial stack it was     *)
(* given.                                                                  *)
(***************************************************************************)
EXTENDS Integers, Sequences, FiniteSets, TLC

VARIABLES
    game_state,     \* the shared dict (lines 21-63), the fields the lifecycle uses
    pc,             \* position of the game_loop thread
    i,              \* loop variable of the running for-loop in game_loop
    small_blind,    \* play_poker_hand local (line 538), last value computed
    big_blind,      \* play_poker_hand local (line 539), last value computed
    min_stack,      \* play_poker_hand local (line 604)
    game_result,    \* play_poker_hand local (line 621): <<Claude stack, GPT stack>>
    claude_excess,  \* play_poker_hand local (line 624)
    gpt_excess,     \* play_poker_hand local (line 625)
    hand_path,      \* which branch the running call of play_poker_hand took
    pre,            \* game_state as it was when the running call was entered
    main_pc,        \* position of the importing thread (lines 848-854)
    start_pc,       \* position of a running start_game handler
    start_found_idle,  \* is_playing was off when that handler stored it
    hands_left,     \* hands the model still lets this run start
    frame           \* the call of declare_action (or of a helper) in progress

vars == <<game_state, pc, i, small_blind, big_blind, min_stack, game_result,
          claude_excess, gpt_excess, hand_path, pre, main_pc, start_pc,
          start_found_idle, hands_left, frame>>

locals == <<min_stack, game_result, claude_excess, gpt_excess>>
blinds == <<small_blind, big_blind>>
threads == <<main_pc, start_pc, start_found_idle>>
others == <<threads, hands_left, frame>>

-----------------------------------------------------------------------------
(* Bounds of the model. *)

\* Hands a run from construction may start.
MaxHands == 3
\* Hands a run with the HTTP handlers may start.
ServedHands == 2
\* Hand number of the late start state, and hands a late run may start.
LateStart == 997
LateHands == 4
\* Chips the engine may leave a seat that lost all but a few.
ShortLeft == 5
\* All-in raises counted within one match.
MaxAllins == 1
\* Pieces a response text is put together from.
MaxPieces == 3
\* Highest score the hand evaluator gives.
MaxScore == 2
\* Decisions recorded in a hand that is followed decision by decision.
MaxDecisions == 3

(* Program constants. *)
StartStack == 1000
CountdownSeconds == 60
PauseSeconds == 10
BlindStep == 10

-----------------------------------------------------------------------------
(* Pure helpers. *)

Min(a, b) == IF a < b THEN a ELSE b

\* Mutant: the level changes one hand early.
BlindLevelEarly(hand_number) == (hand_number + 1) \div BlindStep

BlindLevel(hand_number) == hand_number \div BlindStep

SmallBlind(hand_number) == 5 + (BlindLevel(hand_number) * 5)

BigBlind(hand_number) == SmallBlind(hand_number) * 2

\* Mutant: the two branches name the seat the dealer already is.
OtherDealerSame(dealer) == IF dealer = "claude" THEN "claude" ELSE "gpt"

OtherDealer(dealer) == IF dealer = "claude" THEN "gpt" ELSE "claude"

\* Mutant: the length of the last match is kept, longer or not.
TrackLongestLast(longest_game, current_game_hands) == current_game_hands

TrackLongest(longest_game, current_game_hands) ==
    IF current_game_hands > 0
       /\ (longest_game = 0 \/ current_game_hands > longest_game)
    THEN current_game_hands ELSE longest_game

\* Mutant: the "not set yet" case (0) is forgotten.
TrackShortestNoZero(shortest_game, current_game_hands) ==
    IF current_game_hands > 0 /\ current_game_hands < shortest_game
    THEN current_game_hands ELSE shortest_game

TrackShortest(shortest_game, current_game_hands) ==
    IF current_game_hands > 0
       /\ (shortest_game = 0 \/ current_game_hands < shortest_game)
    THEN current_game_hands ELSE shortest_game

\* Mutant: equal stacks go to the first seat.
HandWinnerTieFirst(claude_stack, gpt_stack) ==
    IF claude_stack >= gpt_stack THEN "Claude" ELSE "GPT"

HandWinner(claude_stack, gpt_stack) ==
    IF claude_stack > gpt_stack THEN "Claude" ELSE "GPT"

\* Mutant: the game goes to the seat that is out of chips.
GameWinnerSwapped(claude_stack) == IF claude_stack > 0 THEN "GPT" ELSE "Claude"

GameWinner(claude_stack) == IF claude_stack > 0 THEN "Claude" ELSE "GPT"

\* Mutant: the excess is not set aside.
ClaudeExcessDropped(claude_stack, m) == 0

ClaudeExcess(claude_stack, m) == claude_stack - m

\* Mutant: the excess is not set aside.
GptExcessDropped(gpt_stack, m) == 0

GptExcess(gpt_stack, m) == gpt_stack - m

\* list.insert(0, x) followed by pop() when longer than cap
PushFront(list, x, cap) ==
    LET l == <<x>> \o list IN IF Len(l) > cap THEN SubSeq(l, 1, cap) ELSE l

\* list.append(x) followed by pop(0) when longer than cap
PushBack(list, x, cap) ==
    LET l == Append(list, x) IN IF Len(l) > cap THEN Tail(l) ELSE l

-----------------------------------------------------------------------------
(* Text.  A Python str is a sequence of one-character strings. *)

UpperCase == <<"A", "B", "C", "D", "E", "F", "G", "H", "I", "J", "K", "L", "M",
               "N", "O", "P", "Q", "R", "S", "T", "U", "V", "W", "X", "Y", "Z">>

LowerCase == <<"a", "b", "c", "d", "e", "f", "g", "h", "i", "j", "k", "l", "m",
               "n", "o", "p", "q", "r", "s", "t", "u", "v", "w", "x", "y", "z">>

Digits == <<"0", "1", "2", "3", "4", "5", "6", "7", "8", "9">>

\* The value of an expression that is computed once: The({e(x) : x \in {v}})
\* is e(v).
The(values) == CHOOSE v \in values : TRUE

\* str.lower(), one character
LowerChar(c) ==
    IF \E k \in 1..Len(UpperCase) : UpperCase[k] = c
    THEN LowerCase[CHOOSE k \in 1..Len(UpperCase) : UpperCase[k] = c]
    ELSE c

\* str.lower()
Lower(text) == [k \in 1..Len(text) |-> LowerChar(text[k])]

\* str.strip(): the blanks at both ends are dropped
Strip(text) ==
    IF \A k \in 1..Len(text) : text[k] = " " THEN <<>>
    ELSE LET first == CHOOSE k \in 1..Len(text) :
                        text[k] # " " /\ \A j \in 1..(k - 1) : text[j] = " "
             last == CHOOSE k \in 1..Len(text) :
                        text[k] # " " /\ \A j \in (k + 1)..Len(text) : text[j] = " "
         IN SubSeq(text, first, last)

\* word in text
Contains(text, word) ==
    \E k \in 1..(Len(text) - Len(word) + 1) :
        SubSeq(text, k, k + Len(word) - 1) = word

\* the character class \d
IsDigit(c) == \E k \in 1..Len(Digits) : Digits[k] = c

DigitValue(c) == (CHOOSE k \in 1..Len(Digits) : Digits[k] = c) - 1

\* Length of the run of digits text starts with.
DigitRun(text) ==
    CHOOSE n \in 0..Len(text) :
        /\ \A k \in 1..n : IsDigit(text[k])
        /\ n = Len(text) \/ ~IsDigit(text[n + 1])

\* re.findall(r'\d+', text): the maximal runs of digits, left to right
RECURSIVE FindAllNumbers(_)
FindAllNumbers(text) ==
    IF text = <<>> THEN <<>>
    ELSE IF ~IsDigit(Head(text)) THEN FindAllNumbers(Tail(text))
    ELSE LET n == DigitRun(text)
         IN <<SubSeq(text, 1, n)>> \o FindAllNumbers(SubSeq(text, n + 1, Len(text)))

\* int(digits)
RECURSIVE ToInt(_)
ToInt(digits) ==
    IF digits = <<>> THEN 0
    ELSE 10 * ToInt(SubSeq(digits, 1, Len(digits) - 1))
         + DigitValue(digits[Len(digits)])

WordFold == <<"f", "o", "l", "d">>
WordCall == <<"c", "a", "l", "l">>
WordRaise == <<"r", "a", "i", "s", "e">>
WordBet == <<"b", "e", "t">>

\* Mutant: the raise rule is tried before the call rule.
ParseRaiseBeforeCall(response_text) ==
    LET text == Strip(Lower(response_text)) IN
    IF Contains(text, WordFold) THEN <<"fold", 0>>
    ELSE IF Contains(text, WordRaise) \/ Contains(text, WordBet) THEN
        LET numbers == FindAllNumbers(text)
        IN IF numbers # <<>> THEN <<"raise", ToInt(numbers[1])>>
           ELSE <<"raise", 20>>
    ELSE <<"call", 0>>

\* lines 251-263: the rules, tried in this order on the text in lower case
Decision(text) ==
    IF Contains(text, WordFold) THEN <<"fold", 0>>
    ELSE IF Contains(text, WordCall) THEN <<"call", 0>>
    ELSE IF Contains(text, WordRaise) \/ Contains(text, WordBet) THEN
        The({ IF numbers # <<>> THEN <<"raise", ToInt(numbers[1])>>
              ELSE <<"raise", 20>> : numbers \in {FindAllNumbers(text)} })
    ELSE <<"call", 0>>

\* parse_ai_decision (lines 245-263), for a str
parse_ai_decision(response_text) ==
    The({ Decision(text) : text \in {Strip(Lower(response_text))} })

\* The pieces responses are put together from.
Pieces ==
    { <<"f", "o", "l", "d">>, <<"F", "O", "L", "D">>, <<"C", "a", "l", "l">>,
      <<"R", "a", "i", "s", "e">>, <<"r", "a", "i", "s", "e">>,
      <<"b", "e", "t">>, <<"c", "h", "e", "c", "k">>, <<"r", "e">>,
      <<" ">>, <<"7">>, <<"5", "0">>, <<"$">> }

\* The responses of at most n pieces.
RECURSIVE Texts(_)
Texts(n) ==
    IF n = 0 THEN {<<>>}
    ELSE Texts(n - 1) \cup {t \o w : t \in Texts(n - 1), w \in Pieces}

-----------------------------------------------------------------------------
(* Cards.  The engine writes a card as suit letter and rank letter ("HT");  *)
(* the display form is made by format_card.  The suit symbols and the card  *)
(* back of the display form are written here with ASCII stand-ins.          *)

Spade == "s"
Heart == "h"
Diamond == "d"
Club == "c"
CardBack == "#"

\* CARD_SYMBOLS.get(c, c) (lines 68-72)
Symbol(c) ==
    IF c = "S" THEN <<Spade>>
    ELSE IF c = "H" THEN <<Heart>>
    ELSE IF c = "D" THEN <<Diamond>>
    ELSE IF c = "C" THEN <<Club>>
    ELSE IF c = "T" THEN <<"1", "0">>
    ELSE <<c>>

\* format_card (lines 108-114)
format_card(card_str) ==
    IF card_str = <<>> \/ card_str = <<"X", "X">> THEN <<CardBack>>
    ELSE Symbol(card_str[1]) \o Symbol(card_str[2])

\* rank_map and suit_map, in the order they are scanned (lines 159-162)
RankMap ==
    << <<(<<"A">>), "A">>, <<(<<"K">>), "K">>, <<(<<"Q">>), "Q">>,
       <<(<<"J">>), "J">>, <<(<<"1", "0">>), "T">>, <<(<<"9">>), "9">>,
       <<(<<"8">>), "8">>, <<(<<"7">>), "7">>, <<(<<"6">>), "6">>,
       <<(<<"5">>), "5">>, <<(<<"4">>), "4">>, <<(<<"3">>), "3">>,
       <<(<<"2">>), "2">> >>

SuitMap == << <<Spade, "S">>, <<Heart, "H">>, <<Diamond, "D">>, <<Club, "C">> >>

\* Python's None where a card is expected.
None == <<>>

\* card_to_pypoker_obj (lines 154-171); a Card is written as the string
\* Card.from_str was given
card_to_pypoker_obj(card_str) ==
    LET ranks == {r \in 1..Len(RankMap) : Contains(card_str, RankMap[r][1])}
        suits == {u \in 1..Len(SuitMap) : Contains(card_str, <<SuitMap[u][1]>>)}
    IN IF card_str = <<>> \/ Contains(card_str, <<CardBack>>) THEN None
       ELSE IF ranks # {} /\ suits # {}
       THEN LET r == CHOOSE x \in ranks : \A y \in ranks : x <= y
                u == CHOOSE x \in suits : \A y \in suits : x <= y
            IN <<SuitMap[u][2], RankMap[r][2]>>
       ELSE None

\* [card_to_pypoker_obj(c) for c in cards], the None values removed
\* (lines 174-181)
KnownCards(cards) ==
    SelectSeq([k \in 1..Len(cards) |-> card_to_pypoker_obj(cards[k])],
              LAMBDA c : c # None)

\* simulations (line 213)
simulations == 500

\* Percentages are kept in tenths of a percent: 50.0 is 500.
Fifty == 500
Hundred == 1000

\* round(num / den, 1) in tenths, halves to the even tenth
RoundTenths(num, den) ==
    LET q == (10 * num) \div den
        r == (10 * num) % den
    IN IF 2 * r < den THEN q
       ELSE IF 2 * r > den THEN q + 1
       ELSE IF q % 2 = 0 THEN q ELSE q + 1

\* Mutant: a tie counts as a whole win.
PercentageTiesWhole(wins, ties, total) ==
    RoundTenths((2 * wins + 2 * ties) * 100, 2 * total)

\* round(((wins + ties * 0.5) / total) * 100.0, 1) (lines 236-239)
Percentage(wins, ties, total) ==
    RoundTenths((2 * wins + ties) * 100, 2 * total)

\* Mutant: equal scores go to the first seat.
ShowdownTieToFirst(claude_strength, gpt_strength) ==
    IF claude_strength >= gpt_strength THEN <<Hundred, 0>> ELSE <<0, Hundred>>

\* lines 205-210
Showdown(claude_strength, gpt_strength) ==
    IF claude_strength > gpt_strength THEN <<Hundred, 0>>
    ELSE IF gpt_strength > claude_strength THEN <<0, Hundred>>
    ELSE <<Fifty, Fifty>>

\* How a run of the try block of calculate_win_probabilities ends.
Raised == [raised |-> TRUE, value |-> <<0, 0>>, samples |-> 0]
Returned(value, samples) == [raised |-> FALSE, value |-> value, samples |-> samples]

\* The try block of calculate_win_probabilities (lines 146-239).  deal is
\* what the library and the random generator do in this call: fault names
\* the library call that raises ("none", "conversion" for Card.from_str,
\* "evaluator" for eval_hand), claude_strength and gpt_strength are the
\* scores eval_hand gives on a complete board, and tally counts the samples
\* Claude wins, ties and loses.
EquityBody(claude_cards, gpt_cards, community_cards, deal) ==
    LET claude_hole == KnownCards(claude_cards)
        gpt_hole == KnownCards(gpt_cards)
        board == KnownCards(community_cards)
        cards_needed == 5 - Len(board)
    IN IF claude_cards = <<>> \/ gpt_cards = <<>> THEN Returned(<<Fifty, Fifty>>, 0)
       ELSE IF deal.fault = "conversion" /\ Len(claude_hole) + Len(gpt_hole) + Len(board) > 0
       THEN Raised
       ELSE IF Len(claude_hole) # 2 \/ Len(gpt_hole) # 2 THEN Returned(<<Fifty, Fifty>>, 0)
       ELSE IF deal.fault = "conversion" THEN Raised
       ELSE IF cards_needed = 0
       THEN IF deal.fault = "evaluator" THEN Raised
            ELSE Returned(Showdown(deal.claude_strength, deal.gpt_strength), 0)
       ELSE IF cards_needed < 0 THEN Raised
       ELSE IF deal.fault = "evaluator" THEN Raised
       ELSE Returned(<<Percentage(deal.tally[1], deal.tally[2], simulations),
                       Percentage(deal.tally[3], deal.tally[2], simulations)>>,
                     simulations)

\* Mutant: without the except clause; a failure leaves no value.
CalculateUnprotected(claude_cards, gpt_cards, community_cards, deal) ==
    EquityBody(claude_cards, gpt_cards, community_cards, deal).value

\* calculate_win_probabilities (lines 143-243)
calculate_win_probabilities(claude_cards, gpt_cards, community_cards, deal) ==
    LET body == EquityBody(claude_cards, gpt_cards, community_cards, deal)
    IN IF body.raised THEN <<Fifty, Fifty>> ELSE body.value

\* random.sample calls made by the call
SamplesDrawn(claude_cards, gpt_cards, community_cards, deal) ==
    EquityBody(claude_cards, gpt_cards, community_cards, deal).samples

\* Cards as the engine writes them, and lists of them in display form.
EngineCards ==
    << <<"S", "A">>, <<"H", "T">>, <<"D", "2">>, <<"C", "9">>, <<"H", "K">>,
       <<"S", "7">>, <<"D", "Q">>, <<"C", "J">>, <<"S", "3">> >>

Shown(first, n) == [k \in 1..n |-> format_card(EngineCards[first + k - 1])]

\* Hole cards as game_state can hold them: none yet, one, two, two hidden,
\* one of two hidden, three.
HoleLists(first) ==
    { <<>>, Shown(first, 1), Shown(first, 2),
      <<format_card(<<"X", "X">>), format_card(<<"X", "X">>)>>,
      <<format_card(EngineCards[first]), format_card(<<>>)>>,
      Shown(first, 2) \o <<format_card(EngineCards[9])>> }

\* Boards: preflop, flop, turn, river.
Boards == {Shown(5, 0), Shown(5, 3), Shown(5, 4), Shown(5, 5)}

\* Scores of the hand evaluator, up to MaxScore.
Deals(tallies) ==
    [ fault : {"none", "conversion", "evaluator"},
      claude_strength : 0..MaxScore,
      gpt_strength : 0..MaxScore,
      tally : tallies ]

\* Tallies of the simulations samples.
AllTallies ==
    {<<p[1], p[2], simulations - p[1] - p[2]>> :
        p \in {q \in (0..simulations) \X (0..simulations) : q[1] + q[2] <= simulations}}

SomeTallies == {<<simulations, 0, 0>>, <<0, 1, simulations - 1>>, <<166, 1, 333>>}

-----------------------------------------------------------------------------
(* The rules engine, as the environment. *)

\* Chips that may change hands in one hand played with stacks m and small
\* blind sb: none (split pot), a blind, all but ShortLeft, everything.
Transfers(m, sb) ==
    {t \in {0, 2 * sb, m - ShortLeft, m} : t >= 0 /\ t <= m}

\* The results start_poker may return: final stacks summing to 2*m.
EngineResults(m, sb) ==
    {<<m + t, m - t>> : t \in Transfers(m, sb)} \cup
    {<<m - t, m + t>> : t \in Transfers(m, sb)}

-----------------------------------------------------------------------------
(* States. *)

\* The empty display label ''; a label is written <<text, amount>>.
NoLabel == <<"", 0>>

InitState ==
    [ hand_number        |-> 0,
      round              |-> "waiting",
      pot                |-> 0,
      claude_stack       |-> StartStack,
      gpt_stack          |-> StartStack,
      winner             |-> "",
      countdown          |-> CountdownSeconds,
      hand_countdown     |-> 0,
      is_playing         |-> FALSE,
      wait_for_new_game  |-> FALSE,
      claude_wins        |-> 0,
      gpt_wins           |-> 0,
      claude_games_won   |-> 0,
      gpt_games_won      |-> 0,
      total_hands        |-> 0,
      biggest_pot        |-> 0,
      stack_history      |-> <<>>,
      total_allins       |-> 0,
      game_pots          |-> <<>>,
      current_game_hands |-> 0,
      longest_game       |-> 0,
      shortest_game      |-> 0,
      hand_history       |-> <<>>,
      claude_streak      |-> 0,
      gpt_streak         |-> 0,
      dealer             |-> "claude",
      street                 |-> "waiting",
      claude_cards           |-> <<>>,
      gpt_cards              |-> <<>>,
      community_cards        |-> <<>>,
      claude_current_action  |-> NoLabel,
      gpt_current_action     |-> NoLabel,
      action_history         |-> <<>>,
      claude_win_probability |-> 0,
      gpt_win_probability    |-> 0,
      claude_is_thinking     |-> FALSE,
      gpt_is_thinking        |-> FALSE ]

NoResult == <<0, 0>>

\* No call of declare_action is in progress.
NoFrame == [fn |-> "none"]

\* After construction: the dict literal, the loop thread created, the
\* importing thread about to start it.
Init ==
    /\ game_state = InitState
    /\ pc = "not_started"
    /\ i = 0
    /\ small_blind = 0
    /\ big_blind = 0
    /\ min_stack = 0
    /\ game_result = NoResult
    /\ claude_excess = 0
    /\ gpt_excess = 0
    /\ hand_path = "none"
    /\ pre = InitState
    /\ main_pc = "thread_start"
    /\ start_pc = "idle"
    /\ start_found_idle = FALSE
    /\ hands_left = MaxHands
    /\ frame = NoFrame

\* game_state at the top of the loop after n consecutive iterations in which
\* start_poker raised before asking for an action: every iteration went
\* lines 500-541, 602-621 and 777-782, so the hand counters and the dealer
\* advanced and nothing else changed.
AfterFailedHands(n) ==
    [ InitState EXCEPT
        !.hand_number = n,
        !.total_hands = n,
        !.current_game_hands = n,
        !.round = "hand_pause",
        !.countdown = 0,
        !.is_playing = TRUE,
        !.dealer = IF n % 2 = 1 THEN "gpt" ELSE "claude",
        !.street = "preflop",
        !.claude_win_probability = Fifty,
        !.gpt_win_probability = Fifty ]

\* A state the process is in after LateStart hands.  The blinds of the next
\* hands are then at the size of the starting stacks.
LateState == AfterFailedHands(LateStart)

InitLate ==
    /\ game_state = LateState
    /\ pc = "loop_top"
    /\ i = 0
    /\ small_blind = SmallBlind(LateStart)
    /\ big_blind = BigBlind(LateStart)
    /\ min_stack = 0
    /\ game_result = NoResult
    /\ claude_excess = 0
    /\ gpt_excess = 0
    /\ hand_path = "none"
    /\ pre = InitState
    /\ main_pc = "done"
    /\ start_pc = "idle"
    /\ start_found_idle = FALSE
    /\ hands_left = LateHands
    /\ frame = NoFrame

-----------------------------------------------------------------------------
(* The importing thread: lines 847-854. *)

\* game_thread.start() (line 849)
MainStartThread ==
    /\ main_pc = "thread_start"
    /\ main_pc' = "set_playing"
    /\ pc' = "loop_top"
    /\ UNCHANGED <<game_state, i, blinds, locals, hand_path, pre, start_pc,
                   start_found_idle, hands_left, frame>>

\* game_state['is_playing'] = True (line 852)
MainSetPlaying ==
    /\ main_pc = "set_playing"
    /\ main_pc' = "set_wait"
    /\ game_state' = [game_state EXCEPT !.is_playing = TRUE]
    /\ UNCHANGED <<pc, i, blinds, locals, hand_path, pre, start_pc,
                   start_found_idle, hands_left, frame>>

\* game_state['wait_for_new_game'] = True (line 853)
MainSetWait ==
    /\ main_pc = "set_wait"
    /\ main_pc' = "done"
    /\ game_state' = [game_state EXCEPT !.wait_for_new_game = TRUE]
    /\ UNCHANGED <<pc, i, blinds, locals, hand_path, pre, start_pc,
                   start_found_idle, hands_left, frame>>

-----------------------------------------------------------------------------
(* The HTTP handlers; the server answers once the module is loaded. *)

\* start_game, first store (line 835)
StartSetPlaying ==
    /\ main_pc = "done"
    /\ start_pc = "idle"
    /\ start_pc' = "set_wait"
    /\ start_found_idle' = ~game_state.is_playing
    /\ game_state' = [game_state EXCEPT !.is_playing = TRUE]
    /\ UNCHANGED <<pc, i, blinds, locals, hand_path, pre, main_pc, hands_left,
                   frame>>

\* start_game, second store (line 836)
StartSetWait ==
    /\ start_pc = "set_wait"
    /\ start_pc' = "idle"
    /\ start_found_idle' = FALSE
    /\ game_state' = [game_state EXCEPT !.wait_for_new_game = TRUE]
    /\ UNCHANGED <<pc, i, blinds, locals, hand_path, pre, main_pc, hands_left,
                   frame>>

\* stop_game (line 843)
stop_game ==
    /\ main_pc = "done"
    /\ game_state' = [game_state EXCEPT !.is_playing = FALSE]
    /\ UNCHANGED <<pc, i, blinds, locals, hand_path, pre, others>>

\* get_state (lines 823-830): what a reader is handed, at any moment
get_state == game_state

-----------------------------------------------------------------------------
(* game_loop: lines 784-817. *)

\* if not is_playing: sleep(1); continue (lines 790-792)
LoopIdle ==
    /\ pc = "loop_top"
    /\ ~game_state.is_playing
    /\ UNCHANGED vars

\* is_playing read as true (line 790)
LoopSeesPlaying ==
    /\ pc = "loop_top"
    /\ game_state.is_playing
    /\ pc' = "check_wait"
    /\ UNCHANGED <<game_state, i, blinds, locals, hand_path, pre, others>>

\* if wait_for_new_game: round = 'countdown' (lines 795-798)
LoopStartsCountdown ==
    /\ pc = "check_wait"
    /\ game_state.wait_for_new_game
    /\ game_state' = [game_state EXCEPT !.round = "countdown"]
    /\ i' = CountdownSeconds
    /\ pc' = "countdown"
    /\ UNCHANGED <<blinds, locals, hand_path, pre, others>>

\* wait_for_new_game read as false; countdown = 0 (lines 795, 805)
LoopSkipsCountdown ==
    /\ pc = "check_wait"
    /\ ~game_state.wait_for_new_game
    /\ game_state' = [game_state EXCEPT !.countdown = 0]
    /\ pc' = "play"
    /\ UNCHANGED <<i, blinds, locals, hand_path, pre, others>>

\* one round of: for i in range(60, 0, -1): countdown = i; sleep(1)
CountdownTick ==
    /\ pc = "countdown"
    /\ i > 0
    /\ game_state' = [game_state EXCEPT !.countdown = i]
    /\ i' = i - 1
    /\ UNCHANGED <<pc, blinds, locals, hand_path, pre, others>>

\* the loop is over: wait_for_new_game = False; countdown = 0 (lines 801-805)
CountdownDone ==
    /\ pc = "countdown"
    /\ i = 0
    /\ game_state' = [game_state EXCEPT !.wait_for_new_game = FALSE,
                                        !.countdown = 0]
    /\ pc' = "play"
    /\ UNCHANGED <<i, blinds, locals, hand_path, pre, others>>

-----------------------------------------------------------------------------
(* play_poker_hand: lines 496-782. *)

\* game_state after lines 500-524
Entered(gs) ==
    [gs EXCEPT
        !.hand_number = @ + 1,
        !.total_hands = @ + 1,
        !.current_game_hands = @ + 1,
        !.round = "preflop",
        !.street = "preflop",
        !.winner = "",
        !.claude_cards = <<>>,
        !.gpt_cards = <<>>,
        !.community_cards = <<>>,
        !.pot = 0,
        !.action_history = <<>>,
        !.claude_current_action = NoLabel,
        !.gpt_current_action = NoLabel,
        !.claude_win_probability = Fifty,
        !.gpt_win_probability = Fifty,
        !.claude_is_thinking = FALSE,
        !.gpt_is_thinking = FALSE,
        !.dealer = OtherDealer(@)]

\* The call (line 806) and lines 500-541.
EnterHand ==
    /\ pc = "play"
    /\ hands_left > 0
    /\ hands_left' = hands_left - 1
    /\ pre' = game_state
    /\ hand_path' = "entered"
    /\ game_state' = Entered(game_state)
    /\ small_blind' = SmallBlind(game_state.hand_number + 1)
    /\ big_blind' = BigBlind(game_state.hand_number + 1)
    /\ pc' = "bust_check"
    /\ UNCHANGED <<i, locals, threads, frame>>

\* lines 544-555
ClaudeBustedBeforeHand ==
    /\ pc = "bust_check"
    /\ game_state.claude_stack < big_blind
    /\ game_state' = [game_state EXCEPT
            !.claude_stack = 0,
            !.gpt_games_won = @ + 1,
            !.longest_game = TrackLongest(@, game_state.current_game_hands),
            !.shortest_game = TrackShortest(@, game_state.current_game_hands)]
    /\ hand_path' = "pre_claude"
    /\ pc' = "pre_reset_claude"
    /\ UNCHANGED <<i, blinds, locals, pre, others>>

\* lines 573-584
GptBustedBeforeHand ==
    /\ pc = "bust_check"
    /\ ~(game_state.claude_stack < big_blind)
    /\ game_state.gpt_stack < big_blind
    /\ game_state' = [game_state EXCEPT
            !.gpt_stack = 0,
            !.claude_games_won = @ + 1,
            !.longest_game = TrackLongest(@, game_state.current_game_hands),
            !.shortest_game = TrackShortest(@, game_state.current_game_hands)]
    /\ hand_path' = "pre_gpt"
    /\ pc' = "pre_reset_claude"
    /\ UNCHANGED <<i, blinds, locals, pre, others>>

\* game_state['claude_stack'] = 1000 (lines 560 and 589)
PreResetClaudeStack ==
    /\ pc = "pre_reset_claude"
    /\ game_state' = [game_state EXCEPT !.claude_stack = StartStack]
    /\ pc' = "pre_reset_rest"
    /\ UNCHANGED <<i, blinds, locals, hand_path, pre, others>>

\* lines 561-571 and 590-600
PreResetRest ==
    /\ pc = "pre_reset_rest"
    /\ game_state' = [game_state EXCEPT
            !.gpt_stack = StartStack,
            !.claude_wins = 0,
            !.gpt_wins = 0,
            !.hand_history = <<>>,
            !.stack_history = <<>>,
            !.biggest_pot = 0,
            !.wait_for_new_game = TRUE,
            !.total_allins = 0,
            !.game_pots = <<>>,
            !.current_game_hands = 0]
    /\ pc' = "return"
    /\ UNCHANGED <<i, blinds, locals, hand_path, pre, others>>

\* lines 602-617: neither seat is busted
SetupHand ==
    /\ pc = "bust_check"
    /\ ~(game_state.claude_stack < big_blind)
    /\ ~(game_state.gpt_stack < big_blind)
    /\ min_stack' = Min(game_state.claude_stack, game_state.gpt_stack)
    /\ pc' = "engine"
    /\ UNCHANGED <<game_state, i, blinds, game_result, claude_excess,
                   gpt_excess, hand_path, pre, others>>

\* The pot the engine reports at a decision point: the two blinds.
EnginePot(sb) == 3 * sb

Max(a, b) == IF a > b THEN a ELSE b

\* Mutant: the cap is applied before the floor.
ClampCapFirst(amount, min_amount, max_amount) ==
    LET capped == IF amount > max_amount THEN max_amount ELSE amount
    IN IF capped < min_amount THEN min_amount ELSE capped

\* lines 405-408
Clamp(amount, min_amount, max_amount) ==
    LET floored == IF amount < min_amount THEN min_amount ELSE amount
    IN IF floored > max_amount THEN max_amount ELSE floored

\* amount >= my_stack * 0.95 (line 416)
IsAllIn(amount, my_stack) == 100 * amount >= 95 * my_stack

\* f"{action_type}s" (line 437) and action_type.upper() (line 442)
Plural(action_type) == IF action_type = "fold" THEN "folds" ELSE "calls"
Upper(action_type) == IF action_type = "fold" THEN "FOLD" ELSE "CALL"

\* How a run of the try block of declare_action ends: raised, or returned
\* ret, having stored (or not) an entry of action_history and a label.
DecisionRaised ==
    [raised |-> TRUE, ret |-> <<"", 0>>, recorded |-> FALSE,
     entry |-> <<"", "", 0>>, label |-> NoLabel, is_allin |-> FALSE]

Unrecorded(ret) ==
    [raised |-> FALSE, ret |-> ret, recorded |-> FALSE,
     entry |-> <<"", "", 0>>, label |-> NoLabel, is_allin |-> FALSE]

Recorded(ret, entry, label, is_allin) ==
    [raised |-> FALSE, ret |-> ret, recorded |-> TRUE,
     entry |-> entry, label |-> label, is_allin |-> is_allin]

\* Positions of valid_actions whose action is action_type.
Matching(valid_actions, action_type) ==
    {k \in 1..Len(valid_actions) : valid_actions[k].action = action_type}

\* Mutant: the safety check lets every amount through.
NegativeUnchecked(amount) == FALSE

\* if amount < 0 (line 411)
IsNegative(amount) == amount < 0

\* Mutant: the default is a fold although a call is legal.
DefaultFolds(name, valid_actions) ==
    Recorded(<<"fold", 0>>, <<name, "folds", 0>>, <<"FOLD", 0>>, FALSE)

\* lines 451-474: no entry of valid_actions matched the parsed action
DefaultAction(name, valid_actions) ==
    IF Matching(valid_actions, "call") # {}
    THEN Recorded(<<"call", 0>>, <<name, "calls", 0>>, <<"CALL", 0>>, FALSE)
    ELSE Recorded(<<"fold", 0>>, <<name, "folds", 0>>, <<"FOLD", 0>>, FALSE)

\* The try block of declare_action (lines 377-474).  response is what the
\* external model call gives: it raises, it has no text (None), or a text.
TryDecision(name, valid_actions, my_stack, response) ==
    IF response.kind # "text" THEN DecisionRaised
    ELSE
    The({
    LET action_type == parsed[1]
        amount == parsed[2]
        matches == Matching(valid_actions, action_type)
    IN IF matches # {}
       THEN LET action == valid_actions[CHOOSE k \in matches : \A j \in matches : k <= j]
            IN IF action_type = "raise"
               THEN LET min_amount == Max(20, action.amount.min)
                        max_amount == action.amount.max
                        clamped == Clamp(amount, min_amount, max_amount)
                        is_allin == IsAllIn(clamped, my_stack)
                    IN IF IsNegative(clamped) THEN Unrecorded(<<"call", 0>>)
                       ELSE Recorded(<<"raise", clamped>>,
                                     <<name, IF is_allin THEN "ALL-IN" ELSE "raises", clamped>>,
                                     <<IF is_allin THEN "ALL-IN" ELSE "RAISE", clamped>>,
                                     is_allin)
               ELSE Recorded(<<action_type, action.amount>>,
                             <<name, Plural(action_type), 0>>,
                             <<Upper(action_type), 0>>, FALSE)
       ELSE DefaultAction(name, valid_actions)
    : parsed \in {parse_ai_decision(response.text)} })

\* Mutant: the handler answers with a call.
DecisionErrorCalls == <<"call", 0>>

\* return 'fold', 0 of the except clause (lines 476-479)
DecisionErrorReturn == <<"fold", 0>>

\* The street named by the number of community cards (lines 311-319).
StreetOf(num_community, street) ==
    IF num_community = 0 THEN "preflop"
    ELSE IF num_community = 3 THEN "flop"
    ELSE IF num_community = 4 THEN "turn"
    ELSE IF num_community = 5 THEN "river"
    ELSE street

\* valid_actions as the engine builds it.
ValidActions(call_amount, range) ==
    << [action |-> "fold", amount |-> 0],
       [action |-> "call", amount |-> call_amount],
       [action |-> "raise", amount |-> range] >>

\* What the library and the random generator do in the equity call of a
\* decision the lifecycle specifications follow.
PlainDeal ==
    [fault |-> "none", claude_strength |-> 1, gpt_strength |-> 0,
     tally |-> <<166, 1, 333>>]

\* The hole cards the engine deals a seat.
HoleCard(name) ==
    IF name = "Claude" THEN <<EngineCards[1], EngineCards[2]>>
    ELSE <<EngineCards[3], EngineCards[4]>>

\* The text of a response, written out.
TextCall == <<"c", "a", "l", "l">>
TextShove == <<"r", "a", "i", "s", "e", " ", "5", "0", "0", "0">>

\* Raise ranges the engine reports: a deep stack, a stack of 15 after the
\* flop at blinds 5/10, a single legal amount, and no raise possible.
Ranges ==
    { [min |-> 20, max |-> 1000], [min |-> 10, max |-> 15],
      [min |-> 40, max |-> 40], [min |-> -1, max |-> -1] }

\* valid_actions lists: the engine's, and lists without raise or call.
ValidActionLists ==
    {ValidActions(10, r) : r \in Ranges} \cup
    { SubSeq(ValidActions(10, [min |-> 20, max |-> 1000]), 1, 2),
      SubSeq(ValidActions(10, [min |-> 20, max |-> 1000]), 1, 1) }

\* What the external model call gives.
Responses ==
    { [kind |-> "raises", text |-> <<>>], [kind |-> "none", text |-> <<>>] } \cup
    { [kind |-> "text", text |-> t] :
        t \in { WordFold, TextCall, <<"c", "h", "e", "c", "k">>, WordRaise,
                WordRaise \o <<" ", "7">>, WordRaise \o <<" ", "5", "0">>,
                TextShove } }

\* The calls of declare_action the engine can make.
AdapterCalls ==
    { [fn |-> "declare_action", pc |-> "called", name |-> n,
       valid_actions |-> v, hole_card |-> HoleCard(n), community_card |-> c,
       pot |-> EnginePot(SmallBlind(1)), my_stack |-> m,
       response |-> r, deal |-> d, ret |-> <<"", 0>>] :
      n \in {"Claude", "GPT"}, v \in ValidActionLists,
      c \in {<<>>, [k \in 1..5 |-> EngineCards[4 + k]]},
      m \in {15, 1000}, r \in Responses,
      d \in {PlainDeal, [PlainDeal EXCEPT !.fault = "evaluator"]} }

\* action_history after n decisions of the hand, all calls, GPT first.
EarlierActions(n) ==
    [k \in 1..n |-> <<IF (n - k) % 2 = 0 THEN "GPT" ELSE "Claude", "calls", 0>>]

\* Decisions made in the hand before the one that is followed.
EarlierDecisions == {0, 1, 9, 10}

\* The seat that is written game_state['dealer'].
SeatName(dealer) == IF dealer = "claude" THEN "Claude" ELSE "GPT"

\* The calls of declare_action the engine makes in the hands the lifecycle
\* specifications follow: the opening decision, of the seat on the button,
\* answered with a call or with a raise over the top while all-ins may be
\* counted.
OpeningCalls ==
    { [fn |-> "declare_action", pc |-> "called", name |-> n,
       valid_actions |-> ValidActions(big_blind, [min |-> 2 * big_blind, max |-> min_stack]),
       hole_card |-> HoleCard(n), community_card |-> <<>>,
       pot |-> EnginePot(small_blind), my_stack |-> min_stack - small_blind,
       response |-> [kind |-> "text", text |-> t], deal |-> PlainDeal,
       ret |-> <<"", 0>>] :
      n \in {SeatName(game_state.dealer)},
      t \in {TextCall} \cup
            (IF game_state.total_allins < MaxAllins THEN {TextShove} ELSE {}) }

\* The engine calls declare_action (from start_poker, line 621).
EngineAsks ==
    /\ pc = "engine"
    /\ frame.fn = "none"
    /\ frame' \in OpeningCalls
    /\ UNCHANGED <<game_state, pc, i, blinds, locals, hand_path, pre, threads,
                   hands_left>>

\* The text of a raise of 50.
TextRaise == WordRaise \o <<" ", "5", "0">>

\* The calls of declare_action the engine makes in a hand that is followed
\* decision by decision: either seat, before the flop or on the river, the
\* external model asking for a call or a raise or failing, the hand
\* evaluator working or failing.  asked is the set of seats the engine has
\* asked earlier in the hand.
HandCalls(asked) ==
    { [fn |-> "declare_action", pc |-> "called", name |-> n,
       valid_actions |-> ValidActions(big_blind, [min |-> 2 * big_blind, max |-> min_stack]),
       hole_card |-> HoleCard(n), community_card |-> c,
       pot |-> EnginePot(small_blind), my_stack |-> min_stack - small_blind,
       response |-> r, deal |-> d, ret |-> <<"", 0>>, asked |-> asked] :
      n \in {"Claude", "GPT"},
      c \in {<<>>, [k \in 1..5 |-> EngineCards[4 + k]]},
      r \in { [kind |-> "text", text |-> TextCall],
              [kind |-> "text", text |-> TextRaise],
              [kind |-> "raises", text |-> <<>>] },
      d \in {PlainDeal, [PlainDeal EXCEPT !.fault = "evaluator"]} }

\* The engine calls declare_action (from start_poker, line 621): for the
\* first decision of the hand, or after a decision that was not a fold.
EngineAsksSeat ==
    /\ pc = "engine"
    /\ Len(game_state.action_history) < MaxDecisions
    /\ \/ /\ frame.fn = "none"
          /\ frame' \in HandCalls({})
       \/ /\ frame.fn = "declare_action"
          /\ frame.pc = "returned"
          /\ frame.ret[1] # "fold"
          /\ frame' \in HandCalls(frame.asked \cup {frame.name})
    /\ UNCHANGED <<game_state, pc, i, blinds, locals, hand_path, pre, threads,
                   hands_left>>

\* Mutant: the flag is left up after the sleep.
ThinkingLeftUp == TRUE

\* game_state['claude_is_thinking'] = False (lines 290, 292)
ThinkingCleared == FALSE

\* lines 277-286: the thinking flag goes up, the label is cleared, sleep(5)
DeclareThinks ==
    /\ frame.fn = "declare_action"
    /\ frame.pc = "called"
    /\ game_state' =
        IF frame.name = "Claude"
        THEN [game_state EXCEPT !.claude_is_thinking = TRUE,
                                !.claude_current_action = NoLabel]
        ELSE [game_state EXCEPT !.gpt_is_thinking = TRUE,
                                !.gpt_current_action = NoLabel]
    /\ frame' = [frame EXCEPT !.pc = "sleeping"]
    /\ UNCHANGED <<pc, i, blinds, locals, hand_path, pre, threads, hands_left>>

\* Mutant: the hole cards are stored for both seats.
SeatCardsBoth(is_actor, hole_cards, stored) == hole_cards

\* A seat's cards in the store after lines 300-304: the actor's are
\* replaced, the other seat's are left as they are.
SeatCards(is_actor, hole_cards, stored) ==
    IF is_actor THEN hole_cards ELSE stored

\* game_state after lines 289-328
Woken(gs, f) ==
    LET hole_cards == [k \in 1..Len(f.hole_card) |-> format_card(f.hole_card[k])]
        community_cards ==
            [k \in 1..Len(f.community_card) |-> format_card(f.community_card[k])]
        claude_cards == SeatCards(f.name = "Claude", hole_cards, gs.claude_cards)
        gpt_cards == SeatCards(f.name # "Claude", hole_cards, gs.gpt_cards)
        prob == calculate_win_probabilities(claude_cards, gpt_cards,
                                            community_cards, f.deal)
    IN [gs EXCEPT
            !.claude_is_thinking = IF f.name = "Claude" THEN ThinkingCleared ELSE @,
            !.gpt_is_thinking = IF f.name = "Claude" THEN @ ELSE ThinkingCleared,
            !.claude_cards = claude_cards,
            !.gpt_cards = gpt_cards,
            !.community_cards = community_cards,
            !.pot = f.pot,
            !.street = StreetOf(Len(community_cards), @),
            !.claude_win_probability = prob[1],
            !.gpt_win_probability = prob[2]]

\* lines 289-328: the sleep is over
DeclareWakes ==
    /\ frame.fn = "declare_action"
    /\ frame.pc = "sleeping"
    /\ game_state' = Woken(game_state, frame)
    /\ frame' = [frame EXCEPT !.pc = "prompt"]
    /\ UNCHANGED <<pc, i, blinds, locals, hand_path, pre, threads, hands_left>>

\* lines 376-479: the external call, the parsing and the validation, and
\* the except clause
DeclareDecides ==
    /\ frame.fn = "declare_action"
    /\ frame.pc = "prompt"
    /\ \E tried \in {TryDecision(frame.name, frame.valid_actions, frame.my_stack,
                                  frame.response)} :
       LET out == IF tried.raised THEN Unrecorded(DecisionErrorReturn) ELSE tried
       IN /\ game_state' = [game_state EXCEPT
                !.total_allins = IF out.is_allin THEN @ + 1 ELSE @,
                !.action_history =
                    IF out.recorded THEN PushFront(@, out.entry, 10) ELSE @,
                !.claude_current_action =
                    IF out.recorded /\ frame.name = "Claude" THEN out.label ELSE @,
                !.gpt_current_action =
                    IF out.recorded /\ frame.name # "Claude" THEN out.label ELSE @]
          /\ frame' = [frame EXCEPT !.pc = "returned", !.ret = out.ret]
    /\ UNCHANGED <<pc, i, blinds, locals, hand_path, pre, threads, hands_left>>

\* AIPlayer.declare_action (lines 273-479)
declare_action == DeclareThinks \/ DeclareWakes \/ DeclareDecides

\* game_state when play_poker_hand is called for hand 1, after the countdown.
BeforeFirstHand ==
    [InitState EXCEPT !.is_playing = TRUE, !.round = "countdown", !.countdown = 0]

\* game_state in hand 1 after n decisions, all calls of the big blind.
MidHand(n) ==
    [Entered(BeforeFirstHand) EXCEPT
        !.action_history = EarlierActions(n),
        !.pot = IF n >= 1 THEN EnginePot(SmallBlind(1)) ELSE 0,
        !.gpt_cards =
            IF n >= 1 THEN <<format_card(EngineCards[3]), format_card(EngineCards[4])>>
            ELSE <<>>,
        !.gpt_current_action = IF n >= 1 THEN <<"CALL", 0>> ELSE NoLabel,
        !.claude_cards =
            IF n >= 2 THEN <<format_card(EngineCards[1]), format_card(EngineCards[2])>>
            ELSE <<>>,
        !.claude_current_action = IF n >= 2 THEN <<"CALL", 0>> ELSE NoLabel,
        !.claude_win_probability =
            IF n >= 2 THEN Percentage(PlainDeal.tally[1], PlainDeal.tally[2], simulations)
            ELSE Fifty,
        !.gpt_win_probability =
            IF n >= 2 THEN Percentage(PlainDeal.tally[3], PlainDeal.tally[2], simulations)
            ELSE Fifty]

\* Mutant: the failure ends the loop thread.
EngineRaisesEndsLoop ==
    /\ pc = "engine"
    /\ frame.fn = "declare_action" => frame.pc # "sleeping"
    /\ game_state' = [game_state EXCEPT !.round = "error"]
    /\ hand_path' = "error"
    /\ pc' = "not_started"
    /\ frame' = NoFrame
    /\ UNCHANGED <<i, blinds, locals, pre, threads, hands_left>>

\* Mutant: the handler declares a winner.
EngineRaisesDeclaresWinner ==
    /\ pc = "engine"
    /\ frame.fn = "declare_action" => frame.pc # "sleeping"
    /\ game_state' = [game_state EXCEPT !.round = "error", !.winner = "GPT",
                                        !.gpt_wins = @ + 1]
    /\ hand_path' = "error"
    /\ pc' = "return"
    /\ frame' = NoFrame
    /\ UNCHANGED <<i, blinds, locals, pre, threads, hands_left>>

\* start_poker raises (line 621), in the engine or in declare_action
\* outside its try block; the handler of lines 777-782
EngineRaises ==
    /\ pc = "engine"
    /\ frame.fn = "declare_action" => frame.pc # "sleeping"
    /\ game_state' = [game_state EXCEPT !.round = "error"]
    /\ hand_path' = "error"
    /\ pc' = "return"
    /\ frame' = NoFrame
    /\ UNCHANGED <<i, blinds, locals, pre, threads, hands_left>>

\* start_poker returns (line 621).  Heads-up, the engine asks the small
\* blind to act before a hand can end: declare_action has returned by then.
EngineReturns ==
    /\ pc = "engine"
    /\ frame.fn = "declare_action"
    /\ frame.pc = "returned"
    /\ game_result' \in EngineResults(min_stack, small_blind)
    /\ pc' = "settle_claude"
    /\ frame' = NoFrame
    /\ UNCHANGED <<game_state, i, blinds, min_stack, claude_excess,
                   gpt_excess, hand_path, pre, threads, hands_left>>

\* lines 624-630
SettleClaude ==
    /\ pc = "settle_claude"
    /\ claude_excess' = ClaudeExcess(game_state.claude_stack, min_stack)
    /\ gpt_excess' = GptExcess(game_state.gpt_stack, min_stack)
    /\ game_state' = [game_state EXCEPT
            !.claude_stack = game_result[1] + claude_excess']
    /\ pc' = "settle_gpt"
    /\ UNCHANGED <<i, blinds, min_stack, game_result, hand_path, pre, others>>

\* game_state after lines 631-739 of a hand the engine completed.  The
\* records of hand_history and stack_history are kept by their hand number.
Settled(gs) ==
    LET gpt == game_result[2] + gpt_excess
        winner == HandWinner(gs.claude_stack, gpt)
    IN [gs EXCEPT
            !.gpt_stack = gpt,
            !.biggest_pot = IF gs.pot > @ THEN gs.pot ELSE @,
            !.game_pots = IF gs.pot > 0 THEN Append(@, gs.pot) ELSE @,
            !.winner = winner,
            !.claude_wins = IF winner = "Claude" THEN @ + 1 ELSE @,
            !.claude_streak = IF winner = "Claude" THEN @ + 1 ELSE 0,
            !.gpt_wins = IF winner = "GPT" THEN @ + 1 ELSE @,
            !.gpt_streak = IF winner = "GPT" THEN @ + 1 ELSE 0,
            !.hand_history = PushFront(@, gs.hand_number, 5),
            !.stack_history = PushBack(@, gs.hand_number, 10)]

\* Mutant: the game goes to both seats.
GameOverCreditsBoth(gs) ==
    [gs EXCEPT
        !.claude_games_won = @ + 1,
        !.gpt_games_won = @ + 1,
        !.longest_game = TrackLongest(@, gs.current_game_hands),
        !.shortest_game = TrackShortest(@, gs.current_game_hands)]

\* game_state after lines 742-756, taken when a seat is at 0 or below
GameOver(gs) ==
    [gs EXCEPT
        !.claude_games_won =
            IF GameWinner(gs.claude_stack) = "Claude" THEN @ + 1 ELSE @,
        !.gpt_games_won =
            IF GameWinner(gs.claude_stack) = "Claude" THEN @ ELSE @ + 1,
        !.longest_game = TrackLongest(@, gs.current_game_hands),
        !.shortest_game = TrackShortest(@, gs.current_game_hands)]

\* lines 631-756
SettleGpt ==
    /\ pc = "settle_gpt"
    /\ LET gs == Settled(game_state) IN
        IF gs.claude_stack <= 0 \/ gs.gpt_stack <= 0
        THEN /\ game_state' = GameOver(gs)
             /\ hand_path' = "post_bust"
             /\ pc' = "post_reset_claude"
        ELSE /\ game_state' = gs
             /\ hand_path' = "played"
             /\ pc' = "return"
    /\ UNCHANGED <<i, blinds, locals, pre, others>>

\* game_state['claude_stack'] = 1000 (line 761)
PostResetClaudeStack ==
    /\ pc = "post_reset_claude"
    /\ game_state' = [game_state EXCEPT !.claude_stack = StartStack]
    /\ pc' = "post_reset_rest"
    /\ UNCHANGED <<i, blinds, locals, hand_path, pre, others>>

\* Mutant: the reset does not ask for the countdown.
PostResetRestNoWait ==
    /\ pc = "post_reset_rest"
    /\ game_state' = [game_state EXCEPT
            !.gpt_stack = StartStack,
            !.claude_streak = 0,
            !.gpt_streak = 0,
            !.claude_wins = 0,
            !.gpt_wins = 0,
            !.hand_history = <<>>,
            !.stack_history = <<>>,
            !.biggest_pot = 0,
            !.total_allins = 0,
            !.game_pots = <<>>,
            !.current_game_hands = 0]
    /\ pc' = "return"
    /\ UNCHANGED <<i, blinds, locals, hand_path, pre, others>>

\* lines 762-775
PostResetRest ==
    /\ pc = "post_reset_rest"
    /\ game_state' = [game_state EXCEPT
            !.gpt_stack = StartStack,
            !.claude_streak = 0,
            !.gpt_streak = 0,
            !.claude_wins = 0,
            !.gpt_wins = 0,
            !.hand_history = <<>>,
            !.stack_history = <<>>,
            !.biggest_pot = 0,
            !.wait_for_new_game = TRUE,
            !.total_allins = 0,
            !.game_pots = <<>>,
            !.current_game_hands = 0]
    /\ pc' = "return"
    /\ UNCHANGED <<i, blinds, locals, hand_path, pre, others>>

\* play_poker_hand returns to game_loop, which goes on at line 809:
\* round = 'hand_pause', whatever branch the call took.
ReturnToLoop ==
    /\ pc = "return"
    /\ game_state' = [game_state EXCEPT !.round = "hand_pause"]
    /\ i' = PauseSeconds
    /\ pc' = "pause"
    /\ min_stack' = 0
    /\ game_result' = NoResult
    /\ claude_excess' = 0
    /\ gpt_excess' = 0
    /\ hand_path' = "none"
    /\ pre' = InitState
    /\ UNCHANGED <<blinds, others>>

\* one round of: for i in range(10, 0, -1): hand_countdown = i; sleep(1)
PauseTick ==
    /\ pc = "pause"
    /\ i > 0
    /\ game_state' = [game_state EXCEPT !.hand_countdown = i]
    /\ i' = i - 1
    /\ UNCHANGED <<pc, blinds, locals, hand_path, pre, others>>

\* hand_countdown = 0 (line 813), back to while True
PauseDone ==
    /\ pc = "pause"
    /\ i = 0
    /\ game_state' = [game_state EXCEPT !.hand_countdown = 0]
    /\ pc' = "loop_top"
    /\ UNCHANGED <<i, blinds, locals, hand_path, pre, others>>

-----------------------------------------------------------------------------
(* Specifications. *)

play_poker_hand ==
    \/ EnterHand
    \/ ClaudeBustedBeforeHand
    \/ GptBustedBeforeHand
    \/ PreResetClaudeStack
    \/ PreResetRest
    \/ SetupHand
    \/ EngineAsks
    \/ declare_action
    \/ EngineRaises
    \/ EngineReturns
    \/ SettleClaude
    \/ SettleGpt
    \/ PostResetClaudeStack
    \/ PostResetRest

game_loop ==
    \/ LoopIdle
    \/ LoopSeesPlaying
    \/ LoopStartsCountdown
    \/ LoopSkipsCountdown
    \/ CountdownTick
    \/ CountdownDone
    \/ play_poker_hand
    \/ ReturnToLoop
    \/ PauseTick
    \/ PauseDone

start_game == StartSetPlaying \/ StartSetWait

ModuleInit == MainStartThread \/ MainSetPlaying \/ MainSetWait

Next == ModuleInit \/ game_loop \/ start_game \/ stop_game

Unserved == ModuleInit \/ game_loop

\* The lifecycle while no start or stop request arrives.
Spec == Init /\ [][Unserved]_vars

Served == game_loop \/ start_game \/ stop_game

\* The lifecycle from the late state, the module loaded and the handlers
\* answering.
SpecLate == InitLate /\ [][Served]_vars

InitServed ==
    /\ game_state = InitState
    /\ pc = "not_started"
    /\ i = 0
    /\ small_blind = 0
    /\ big_blind = 0
    /\ min_stack = 0
    /\ game_result = NoResult
    /\ claude_excess = 0
    /\ gpt_excess = 0
    /\ hand_path = "none"
    /\ pre = InitState
    /\ main_pc = "thread_start"
    /\ start_pc = "idle"
    /\ start_found_idle = FALSE
    /\ hands_left = ServedHands
    /\ frame = NoFrame

\* The lifecycle with start and stop requests arriving at any moment.
SpecServed == InitServed /\ [][Next]_vars

\* The same, the loop thread being scheduled whenever it has a step to take:
\* its sleeps end and the calls it waits for return or raise.
SpecFair == InitServed /\ [][Next]_vars /\ WF_vars(game_loop)

\* The lifecycle variables while a helper is checked on its own.
LifecycleAtRest ==
    /\ game_state = InitState
    /\ pc = "not_started"
    /\ i = 0
    /\ small_blind = 0
    /\ big_blind = 0
    /\ min_stack = 0
    /\ game_result = NoResult
    /\ claude_excess = 0
    /\ gpt_excess = 0
    /\ hand_path = "none"
    /\ pre = InitState
    /\ main_pc = "thread_start"
    /\ start_pc = "idle"
    /\ start_found_idle = FALSE
    /\ hands_left = 0

AtRest == <<game_state, pc, i, blinds, locals, hand_path, pre, threads, hands_left>>

\* A call of parse_ai_decision with any response text.
InitParse ==
    /\ LifecycleAtRest
    /\ frame \in {[fn |-> "parse_ai_decision", pc |-> "called",
                   response_text |-> t, ret |-> <<"", 0>>] : t \in Texts(MaxPieces)}

\* The call runs to its return statement.
ParseCall ==
    /\ frame.fn = "parse_ai_decision"
    /\ frame.pc = "called"
    /\ frame' = [frame EXCEPT !.pc = "returned",
                              !.ret = parse_ai_decision(frame.response_text)]
    /\ UNCHANGED AtRest

SpecParse == InitParse /\ [][ParseCall]_vars

\* Hand 1 is at start_poker and the engine makes a call of declare_action.
InitAdapter ==
    /\ game_state \in {MidHand(n) : n \in EarlierDecisions}
    /\ pc = "engine"
    /\ i = 0
    /\ small_blind = SmallBlind(1)
    /\ big_blind = BigBlind(1)
    /\ min_stack = StartStack
    /\ game_result = NoResult
    /\ claude_excess = 0
    /\ gpt_excess = 0
    /\ hand_path = "entered"
    /\ pre = BeforeFirstHand
    /\ main_pc = "done"
    /\ start_pc = "idle"
    /\ start_found_idle = FALSE
    /\ hands_left = 0
    /\ frame \in AdapterCalls

\* One call of declare_action, from the call to the return.
SpecAdapter == InitAdapter /\ [][declare_action]_vars

\* game_state when play_poker_hand is called for hand 2, after a hand in
\* which both seats decided once and start_poker then raised.
BeforeSecondHand == [MidHand(2) EXCEPT !.round = "hand_pause"]

\* play_poker_hand is called, for hand 1 or for hand 2.
InitHand ==
    /\ game_state \in {BeforeFirstHand, BeforeSecondHand}
    /\ pc = "play"
    /\ i = 0
    /\ small_blind = 0
    /\ big_blind = 0
    /\ min_stack = 0
    /\ game_result = NoResult
    /\ claude_excess = 0
    /\ gpt_excess = 0
    /\ hand_path = "none"
    /\ pre = InitState
    /\ main_pc = "done"
    /\ start_pc = "idle"
    /\ start_found_idle = FALSE
    /\ hands_left = 1
    /\ frame = NoFrame

\* The steps of one hand up to the return of start_poker, the engine asking
\* the seats in any order.
OneHand == EnterHand \/ SetupHand \/ EngineAsksSeat \/ declare_action

\* One hand, followed decision by decision.
SpecHand == InitHand /\ [][OneHand]_vars

\* A call of calculate_win_probabilities with any cards, the library and
\* the random generator doing anything.
InitEquity ==
    /\ LifecycleAtRest
    /\ frame \in {[fn |-> "calculate_win_probabilities", pc |-> "called",
                   claude_cards |-> c, gpt_cards |-> g, community_cards |-> b,
                   deal |-> d, ret |-> <<0, 0>>, samples |-> 0] :
                  c \in HoleLists(1), g \in HoleLists(3), b \in Boards,
                  d \in Deals(SomeTallies)}

\* A call on the flop, with any tally of the samples.
InitTally ==
    /\ LifecycleAtRest
    /\ frame \in {[fn |-> "calculate_win_probabilities", pc |-> "called",
                   claude_cards |-> Shown(1, 2), gpt_cards |-> Shown(3, 2),
                   community_cards |-> Shown(5, 3), deal |-> d,
                   ret |-> <<0, 0>>, samples |-> 0] :
                  d \in [fault : {"none"}, claude_strength : {0},
                         gpt_strength : {0}, tally : AllTallies]}

\* The call runs to a return statement.
EquityCall ==
    /\ frame.fn = "calculate_win_probabilities"
    /\ frame.pc = "called"
    /\ frame' = [frame EXCEPT
            !.pc = "returned",
            !.ret = calculate_win_probabilities(frame.claude_cards, frame.gpt_cards,
                                                frame.community_cards, frame.deal),
            !.samples = SamplesDrawn(frame.claude_cards, frame.gpt_cards,
                                     frame.community_cards, frame.deal)]
    /\ UNCHANGED AtRest

SpecEquity == InitEquity /\ [][EquityCall]_vars

SpecTally == InitTally /\ [][EquityCall]_vars

-----------------------------------------------------------------------------
(* Properties. *)

\* The late state has the shape of a state runs from construction reach:
\* under Spec, ~FailedHandsReached is violated.
FailedHandsReached ==
    /\ pc = "loop_top"
    /\ main_pc = "done"
    /\ game_state = AfterFailedHands(MaxHands)
    /\ small_blind = SmallBlind(MaxHands)
    /\ hand_path = "none"

Abs(x) == IF x < 0 THEN -x ELSE x

\* The running call of play_poker_hand is about to return.
AtReturn == pc = "return"

\* The step that enters play_poker_hand.
Entering == pc = "play" /\ pc' = "bust_check"

\* The stacks of the running call right after settlement (lines 630, 632).
SettledClaude == game_result[1] + claude_excess
SettledGpt == game_result[2] + gpt_excess

\* current_game_hands of the running call after line 502.
HandsThisGame == pre.current_game_hands + 1

ExpectedLongest ==
    IF pre.longest_game = 0 \/ HandsThisGame > pre.longest_game
    THEN HandsThisGame ELSE pre.longest_game

ExpectedShortest ==
    IF pre.shortest_game = 0 \/ HandsThisGame < pre.shortest_game
    THEN HandsThisGame ELSE pre.shortest_game

\* Stacks 1000/1000, the hand count of the match 0, the countdown requested.
MatchIsReset ==
    /\ game_state.claude_stack = 1000
    /\ game_state.gpt_stack = 1000
    /\ game_state.current_game_hands = 0
    /\ game_state.wait_for_new_game

\* C1: a hand the engine completed with final stacks summing to 2*min of
\* the pre-hand stacks, and after which no seat is at 0 or below, leaves
\* each seat its engine stack plus its pre-hand excess over the minimum, and
\* the two stacks sum to what they summed to before the hand (within 1).
C1_ChipConservation ==
    LET m == Min(pre.claude_stack, pre.gpt_stack) IN
    (/\ AtReturn
     /\ hand_path = "played"
     /\ game_result[1] + game_result[2] = 2 * m)
    => /\ game_state.claude_stack = game_result[1] + (pre.claude_stack - m)
       /\ game_state.gpt_stack = game_result[2] + (pre.gpt_stack - m)
       /\ Abs((game_state.claude_stack + game_state.gpt_stack)
              - (pre.claude_stack + pre.gpt_stack)) <= 1

\* C1 witness: a hand played from unequal stacks has been settled.
C1_Witness ==
    /\ AtReturn
    /\ hand_path = "played"
    /\ pre.claude_stack > pre.gpt_stack
    /\ game_state.claude_stack # pre.claude_stack

\* C2 as claimed: in every state a reader can be handed, the two stacks sum
\* to 2000 within 1.
C2_SumAtEveryObservation ==
    Abs(get_state.claude_stack + get_state.gpt_stack - 2000) <= 1

\* The lifecycle thread is between two stores that together keep the total:
\* settlement has stored Claude's stack and not yet GPT's, a pre-hand bust
\* has forced a stack to 0 and the reset has not yet stored both stacks, or
\* a reset has stored Claude's stack and not yet GPT's.
BetweenStackStores ==
    pc \in {"settle_gpt", "pre_reset_claude", "pre_reset_rest", "post_reset_rest"}

\* C2 as amended: the two stacks a reader is handed sum to 2000 whenever the
\* lifecycle thread is not between two such stores.
C2_SumOutsideStackStores ==
    ~BetweenStackStores => get_state.claude_stack + get_state.gpt_stack = 2000

\* C2 witness: a reader is handed unequal stacks during the pause after a
\* hand.
C2_Witness ==
    /\ pc = "pause"
    /\ get_state.claude_stack > get_state.gpt_stack
    /\ get_state.gpt_stack > 0

\* C3: when settlement leaves a seat at 0 or below, the same call credits
\* the other seat one game, updates longest_game and shortest_game from the
\* hand count of the match as it was before the reset, and resets the match.
C3_PostHandBust ==
    (/\ AtReturn
     /\ hand_path \in {"played", "post_bust"}
     /\ (SettledClaude <= 0 \/ SettledGpt <= 0))
    => /\ SettledGpt <= 0 =>
            /\ game_state.claude_games_won = pre.claude_games_won + 1
            /\ game_state.gpt_games_won = pre.gpt_games_won
       /\ SettledClaude <= 0 =>
            /\ game_state.gpt_games_won = pre.gpt_games_won + 1
            /\ game_state.claude_games_won = pre.claude_games_won
       /\ game_state.longest_game = ExpectedLongest
       /\ game_state.shortest_game = ExpectedShortest
       /\ MatchIsReset

\* C3 witness: a second match has ended by a post-hand bust of GPT.
C3_Witness ==
    /\ AtReturn
    /\ hand_path = "post_bust"
    /\ SettledGpt <= 0
    /\ pre.longest_game > 0

\* Pre-hand stacks against the big blind of the running call.
ClaudeBelowBlind == pre.claude_stack < big_blind
GptBelowBlind == pre.gpt_stack < big_blind

\* The engine was not invoked in the call that is about to return.
EngineNotInvoked == hand_path \in {"pre_claude", "pre_gpt"}

PreHandBustEffects ==
    /\ EngineNotInvoked
    /\ game_state.longest_game = ExpectedLongest
    /\ game_state.shortest_game = ExpectedShortest
    /\ MatchIsReset

C5_ResetClearsAll ==
    (AtReturn /\ hand_path \in {"pre_claude", "pre_gpt", "post_bust"})
    => /\ game_state.claude_stack = 1000
       /\ game_state.gpt_stack = 1000
       /\ game_state.claude_wins = 0
       /\ game_state.gpt_wins = 0
       /\ game_state.claude_streak = 0
       /\ game_state.gpt_streak = 0
       /\ game_state.hand_history = <<>>
       /\ game_state.stack_history = <<>>
       /\ game_state.biggest_pot = 0
       /\ game_state.total_allins = 0
       /\ game_state.game_pots = <<>>
       /\ game_state.current_game_hands = 0

\* C6, the state part: the blinds of the hand in progress follow the
\* schedule for its hand number.
BlindsFollowSchedule ==
    hand_path # "none" =>
        /\ small_blind = 5 + 5 * (game_state.hand_number \div 10)
        /\ big_blind = 2 * small_blind

\* C6, the step part: the hand number goes up by one on every entry and
\* changes in no other step, and the blinds never go down.
HandNumberCountsEntries ==
    /\ Entering => game_state'.hand_number = game_state.hand_number + 1
    /\ ~Entering => game_state'.hand_number = game_state.hand_number
    /\ small_blind' >= small_blind
    /\ big_blind' >= big_blind

\* C6: blind level floor(hand_number/10), small blind 5 + 5*level, big
\* blind twice that; hand_number counts the entries and is never reset, so
\* the blinds of successive hands never decrease.
C6_BlindSchedule == [](BlindsFollowSchedule) /\ [][HandNumberCountsEntries]_vars

\* C6 witness: a hand at the level after the one the run started at.
C6_Witness ==
    /\ hand_path # "none"
    /\ game_state.hand_number \div 10 = (LateStart \div 10) + 1

C8_DealerAlternates ==
    [][/\ Entering => game_state'.dealer # game_state.dealer
       /\ ~Entering => game_state'.dealer = game_state.dealer]_vars

\* C8 witness: the first hand of a second match is entered, after a call
\* that took the pre-hand bust path.
C8_Witness ==
    /\ pc = "bust_check"
    /\ game_state.current_game_hands = 1
    /\ game_state.hand_number = 3
    /\ game_state.shortest_game = 2
    /\ game_state.dealer = "gpt"

\* C9 as claimed: after a call that took the pre-hand bust path the loop
\* does not enter hand_pause.
C9_PreHandBustSkipsPause ==
    [][(AtReturn /\ hand_path \in {"pre_claude", "pre_gpt"})
        => game_state'.round # "hand_pause"]_vars

\* C10 as claimed: play_poker_hand is entered only while is_playing is true.
C10_NoHandWhileStopped == [][Entering => game_state.is_playing]_vars

\* The countdown of lines 796-801 has run in the iteration that is about to
\* call play_poker_hand: round is stored at line 796 and next at line 503.
CountdownRan == game_state.round = "countdown"

\* C11 as claimed: a hand that begins after a start found the machine idle
\* begins after a countdown: the first hand of the process, which follows
\* the auto-start, and any hand entered while a start handler that found
\* is_playing off is between its two stores.
C11_StartForcesCountdown ==
    [][Entering =>
        /\ game_state.hand_number = 0 => CountdownRan
        /\ (start_pc = "set_wait" /\ start_found_idle) => CountdownRan]_vars

\* The running call of play_poker_hand went through the handler of lines
\* 777-782.
HandFailed == hand_path = "error"

\* C12: after a call of play_poker_hand that failed, the loop calls
\* play_poker_hand again unless is_playing is turned off (the model letting
\* another hand start).
C12_SelfHealing ==
    (HandFailed /\ hands_left > 0) ~> (pc = "bust_check" \/ ~game_state.is_playing)

\* C12 witness: the second hand is entered after a first hand that failed:
\* it left no record and did not end the match.
C12_Witness ==
    /\ pc = "bust_check"
    /\ game_state.is_playing
    /\ game_state.hand_number = 2
    /\ game_state.current_game_hands = 2
    /\ game_state.hand_history = <<>>

\* The text of the parse_ai_decision call, lower-cased.
ParsedText == Lower(frame.response_text)

\* The first integer written in the text: the digits from the first digit
\* of the text up to the next character that is not one.
FirstIntegerIs(text, n) ==
    \E a \in 1..Len(text) : \E b \in a..Len(text) :
        /\ \A k \in 1..(a - 1) : ~IsDigit(text[k])
        /\ \A k \in a..b : IsDigit(text[k])
        /\ b = Len(text) \/ ~IsDigit(text[b + 1])
        /\ n = ToInt(SubSeq(text, a, b))

HasNoDigit(text) == \A k \in 1..Len(text) : ~IsDigit(text[k])

\* C13: whatever the case of the letters, a text containing "fold" gives
\* (fold, 0); otherwise one containing "call" gives (call, 0); otherwise one
\* containing "raise" or "bet" gives (raise, n), n the first integer in the
\* text or 20 when it has none; any other text gives (call, 0).
C13_ParsePriority ==
    (frame.fn = "parse_ai_decision" /\ frame.pc = "returned") =>
        LET fold == Contains(ParsedText, WordFold)
            call == Contains(ParsedText, WordCall)
            raise == Contains(ParsedText, WordRaise) \/ Contains(ParsedText, WordBet)
        IN /\ fold => frame.ret = <<"fold", 0>>
           /\ (~fold /\ call) => frame.ret = <<"call", 0>>
           /\ (~fold /\ ~call /\ raise) =>
                /\ frame.ret[1] = "raise"
                /\ HasNoDigit(ParsedText) => frame.ret[2] = 20
                /\ ~HasNoDigit(ParsedText) => FirstIntegerIs(ParsedText, frame.ret[2])
           /\ (~fold /\ ~call /\ ~raise) => frame.ret = <<"call", 0>>

\* C13 witness: a text that starts with "Raise", goes on with a number and
\* has "call" after it was parsed as a call.
C13_Witness ==
    /\ frame.fn = "parse_ai_decision"
    /\ frame.pc = "returned"
    /\ Len(ParsedText) > 5
    /\ SubSeq(ParsedText, 1, 5) = WordRaise
    /\ IsDigit(ParsedText[6])
    /\ Contains(ParsedText, WordCall)
    /\ frame.ret = <<"call", 0>>

\* A call of calculate_win_probabilities has returned.
EquityReturned == frame.fn = "calculate_win_probabilities" /\ frame.pc = "returned"

\* A card of the display form that shows a rank and a suit.
IsKnownCard(card_str) ==
    /\ \E r \in 1..Len(RankMap) : Contains(card_str, RankMap[r][1])
    /\ \E u \in 1..Len(SuitMap) : Contains(card_str, <<SuitMap[u][1]>>)
    /\ ~Contains(card_str, <<CardBack>>)

KnownCount(cards) == Cardinality({k \in 1..Len(cards) : IsKnownCard(cards[k])})

\* C16: with exactly 2 known hole cards for each seat and a board of 5
\* known cards, the library not failing, the call draws no sample and
\* returns (100, 0), (0, 100) or (50, 50) as the first seat's score is
\* greater than, less than or equal to the second's.
C16_CompleteBoard ==
    (/\ EquityReturned
     /\ frame.deal.fault = "none"
     /\ KnownCount(frame.claude_cards) = 2
     /\ KnownCount(frame.gpt_cards) = 2
     /\ Len(frame.community_cards) = 5
     /\ KnownCount(frame.community_cards) = 5)
    => /\ frame.samples = 0
       /\ frame.deal.claude_strength > frame.deal.gpt_strength => frame.ret = <<1000, 0>>
       /\ frame.deal.claude_strength < frame.deal.gpt_strength => frame.ret = <<0, 1000>>
       /\ frame.deal.claude_strength = frame.deal.gpt_strength => frame.ret = <<500, 500>>

\* C16 witness: a complete board on which the two scores are equal.
C16_Witness ==
    /\ EquityReturned
    /\ frame.deal.fault = "none"
    /\ KnownCount(frame.claude_cards) = 2
    /\ KnownCount(frame.gpt_cards) = 2
    /\ KnownCount(frame.community_cards) = 5
    /\ frame.deal.claude_strength = frame.deal.gpt_strength
    /\ frame.deal.tally[1] = simulations

\* C17: the call returns (50, 50) whenever a seat's hole cards are not
\* exactly 2 known cards and whenever the card conversion or the hand
\* evaluator raises; it always returns a pair of percentages.
C17_InsufficientOrFaulty ==
    EquityReturned =>
        /\ (KnownCount(frame.claude_cards) # 2 \/ KnownCount(frame.gpt_cards) # 2)
                => frame.ret = <<500, 500>>
        /\ EquityBody(frame.claude_cards, frame.gpt_cards,
                      frame.community_cards, frame.deal).raised
                => frame.ret = <<500, 500>>
        /\ frame.ret \in (0..1000) \X (0..1000)
        /\ frame.ret[1] + frame.ret[2] = 1000

\* C17 witness: the evaluator raised on a complete board where the scores
\* would have given the first seat 100.
C17_Witness ==
    /\ EquityReturned
    /\ frame.deal.fault = "evaluator"
    /\ KnownCount(frame.claude_cards) = 2
    /\ KnownCount(frame.gpt_cards) = 2
    /\ KnownCount(frame.community_cards) = 5
    /\ frame.deal.claude_strength > frame.deal.gpt_strength
    /\ frame.ret = <<500, 500>>

\* C18: on the sampling path the pair returned for the tally (wins, ties,
\* losses) of the 500 samples is ((wins + ties/2)/500*100, (losses +
\* ties/2)/500*100); both values are within 0..100, they are whole tenths
\* before rounding, and they sum to 100.
C18_PercentagesSumTo100 ==
    (EquityReturned /\ frame.samples = 500) =>
        LET wins == frame.deal.tally[1]
            ties == frame.deal.tally[2]
            losses == frame.deal.tally[3]
        IN /\ wins + ties + losses = 500
           /\ frame.ret[1] * 2 * 500 = (2 * wins + ties) * 100 * 10
           /\ frame.ret[2] * 2 * 500 = (2 * losses + ties) * 100 * 10
           /\ frame.ret[1] \in 0..1000
           /\ frame.ret[2] \in 0..1000
           /\ ((2 * wins + ties) * 100 * 10) % (2 * 500) = 0
           /\ ((2 * losses + ties) * 100 * 10) % (2 * 500) = 0
           /\ frame.ret[1] + frame.ret[2] = 1000

\* C18 witness: a tally with an odd number of ties.
C18_Witness ==
    /\ EquityReturned
    /\ frame.samples = 500
    /\ frame.deal.tally = <<166, 1, 333>>
    /\ frame.ret = <<333, 667>>

\* A call of declare_action has returned.
DeclareReturned == frame.fn = "declare_action" /\ frame.pc = "returned"

\* The raise range of the call's valid_actions.
RaiseRange ==
    frame.valid_actions[CHOOSE k \in Matching(frame.valid_actions, "raise") : TRUE].amount

\* The amount the response asked for.
Requested == parse_ai_decision(frame.response.text)[2]

\* C14 as claimed: the amount returned with a raise lies between max(20,
\* engine minimum) and the engine maximum.
C14_ClampLaw ==
    (DeclareReturned /\ frame.ret[1] = "raise") =>
        /\ frame.ret[2] >= Max(20, RaiseRange.min)
        /\ frame.ret[2] <= RaiseRange.max

\* C14 as amended: the amount returned with a raise is never above the
\* engine maximum and never negative; it is the request brought into
\* max(20, engine minimum)..maximum when that range is not empty, and the
\* engine maximum when it is.
C14_ClampWithinMaximum ==
    (DeclareReturned /\ frame.ret[1] = "raise") =>
        LET lower == Max(20, RaiseRange.min)
            upper == RaiseRange.max
        IN /\ frame.ret[2] <= upper
           /\ frame.ret[2] >= 0
           /\ lower <= upper =>
                /\ frame.ret[2] >= lower
                /\ Requested < lower => frame.ret[2] = lower
                /\ Requested > upper => frame.ret[2] = upper
                /\ Requested \in lower..upper => frame.ret[2] = Requested
           /\ lower > upper => frame.ret[2] = upper

\* C14 witness: a request above the maximum of a range with room was capped.
C14_Witness ==
    /\ DeclareReturned
    /\ frame.ret[1] = "raise"
    /\ RaiseRange.min < RaiseRange.max
    /\ Requested > RaiseRange.max
    /\ frame.ret[2] = RaiseRange.max

\* C15: when the external call raises or gives nothing to parse, the call
\* of declare_action returns (fold, 0).
C15_FailureIsFold ==
    (DeclareReturned /\ frame.response.kind # "text") => frame.ret = <<"fold", 0>>

\* C15 witness: a response without text, with a call and a raise legal.
C15_Witness ==
    /\ DeclareReturned
    /\ frame.response.kind = "none"
    /\ Len(frame.valid_actions) = 3
    /\ frame.ret = <<"fold", 0>>

\* The label of the seat that acted.
ActorLabel ==
    IF frame.name = "Claude" THEN game_state.claude_current_action
    ELSE game_state.gpt_current_action

\* C19 as claimed: when a call of declare_action has returned, the first
\* entry of action_history is the actor's entry for the action returned,
\* the list has at most 10 entries, and the actor's label names that action.
C19_EveryActionRecorded ==
    DeclareReturned =>
        /\ Len(game_state.action_history) <= 10
        /\ game_state.action_history # <<>>
        /\ game_state.action_history[1][1] = frame.name
        /\ frame.ret[1] = "fold" =>
                /\ game_state.action_history[1][2] = "folds"
                /\ ActorLabel[1] = "FOLD"
        /\ frame.ret[1] = "call" =>
                /\ game_state.action_history[1][2] = "calls"
                /\ ActorLabel[1] = "CALL"
        /\ frame.ret[1] = "raise" =>
                /\ game_state.action_history[1][2] \in {"raises", "ALL-IN"}
                /\ game_state.action_history[1][3] = frame.ret[2]
                /\ ActorLabel \in {<<"RAISE", frame.ret[2]>>, <<"ALL-IN", frame.ret[2]>>}

\* The match was reset and no hand has been entered since.
AfterReset == game_state.current_game_hands = 0 /\ game_state.hand_number > 0

\* A step of the countdown loop, and the step that leaves it.
CountdownStepsDown ==
    /\ (pc = "check_wait" /\ pc' = "countdown") => i' = 60
    /\ (pc = "countdown" /\ pc' = "countdown" /\ i' # i) =>
            /\ game_state'.countdown = i
            /\ i = 60 \/ game_state.countdown = i + 1
    /\ (pc = "countdown" /\ pc' = "play") =>
            /\ game_state.countdown = 1
            /\ game_state'.countdown = 0

\* wait_for_new_game is read true when the countdown phase is entered, and
\* it is turned on only by a reset, by start_game or by the auto-start.
CountdownOnRequest ==
    /\ (pc = "check_wait" /\ pc' = "countdown") => game_state.wait_for_new_game
    /\ (~game_state.wait_for_new_game /\ game_state'.wait_for_new_game) =>
            \/ pc \in {"pre_reset_rest", "post_reset_rest"}
            \/ start_pc = "set_wait"
            \/ main_pc = "set_wait"

\* C20: the hand entered after a match reset is entered after the countdown
\* has run, the countdown field going 60, 59, ..., 1 and then 0; and the
\* countdown phase is entered only on a request of a bust or of a start.
C20_BustThenCountdown ==
    [][/\ (Entering /\ AfterReset) => (CountdownRan /\ game_state.countdown = 0)
       /\ CountdownStepsDown
       /\ CountdownOnRequest]_vars

\* C20 witness: the countdown has run after a pre-hand bust in hand 2 and
\* hand 3 is about to be entered.
C20_Witness ==
    /\ pc = "play"
    /\ hands_left > 0
    /\ AfterReset
    /\ CountdownRan
    /\ game_state.hand_number = 2
    /\ game_state.shortest_game = 2

\* The fields a failed hand leaves as they were when the call was entered.
ChipsAndResultsAsBefore ==
    /\ game_state.claude_stack = pre.claude_stack
    /\ game_state.gpt_stack = pre.gpt_stack
    /\ game_state.claude_wins = pre.claude_wins
    /\ game_state.gpt_wins = pre.gpt_wins
    /\ game_state.claude_streak = pre.claude_streak
    /\ game_state.gpt_streak = pre.gpt_streak
    /\ game_state.claude_games_won = pre.claude_games_won
    /\ game_state.gpt_games_won = pre.gpt_games_won
    /\ game_state.hand_history = pre.hand_history
    /\ game_state.stack_history = pre.stack_history
    /\ game_state.biggest_pot = pre.biggest_pot
    /\ game_state.game_pots = pre.game_pots

\* C21: when start_poker raised in a call of play_poker_hand, the call ends
\* with both stacks, the hand wins, the streaks, the games won, hand_history,
\* stack_history, biggest_pot and game_pots as they were before the call and
\* with no winner declared; the call returns to game_loop, which goes on to
\* the pause between hands.
C21_EngineFailureFrame ==
    /\ [](HandFailed =>
            /\ AtReturn
            /\ ChipsAndResultsAsBefore
            /\ game_state.winner = ""
            /\ game_state.round = "error")
    /\ [][(HandFailed /\ pc' # pc) =>
            /\ pc' = "pause"
            /\ game_state'.round = "hand_pause"]_vars

\* C21 witness: the engine raised after a decision of the hand was made, in
\* a hand that followed a played hand which left the stacks unequal.
C21_Witness ==
    /\ HandFailed
    /\ game_state.action_history # <<>>
    /\ pre.claude_stack # pre.gpt_stack
    /\ pre.hand_history # <<>>
    /\ pre.winner # ""


\* The action kind the response was parsed to.
ParsedKind == parse_ai_decision(frame.response.text)[1]

\* The action kinds of the call's valid_actions.
LegalKinds == {frame.valid_actions[k].action : k \in 1..Len(frame.valid_actions)}

\* C22: a call of declare_action never returns a raise of a negative
\* amount; a raise asked for when the engine's raise range has a negative
\* maximum, so that the clamped amount is negative, returns (call, 0).
C22_NoNegativeRaise ==
    DeclareReturned =>
        /\ frame.ret[1] = "raise" => frame.ret[2] >= 0
        /\ (/\ frame.response.kind = "text"
            /\ ParsedKind = "raise"
            /\ "raise" \in LegalKinds
            /\ RaiseRange.max < 0) => frame.ret = <<"call", 0>>

\* C22 witness: a raise of 50 was asked for with the raise range -1..-1.
C22_Witness ==
    /\ DeclareReturned
    /\ frame.response.kind = "text"
    /\ ParsedKind = "raise"
    /\ Requested = 50
    /\ "raise" \in LegalKinds
    /\ RaiseRange.max < 0
    /\ frame.ret = <<"call", 0>>

\* The amount the engine attached to the first entry of valid_actions of a
\* kind.
EngineAmount(kind) ==
    frame.valid_actions[CHOOSE k \in 1..Len(frame.valid_actions) :
        /\ frame.valid_actions[k].action = kind
        /\ \A j \in 1..(k - 1) : frame.valid_actions[j].action # kind].amount

\* C23: when the parsed kind is not among the kinds of valid_actions, the
\* call returns (call, 0) if call is among them and (fold, 0) otherwise;
\* when it is among them and is not raise, the call returns the kind with
\* the amount the engine attached to it.
C23_LegalActionFallback ==
    (DeclareReturned /\ frame.response.kind = "text") =>
        /\ (ParsedKind \notin LegalKinds /\ "call" \in LegalKinds)
                => frame.ret = <<"call", 0>>
        /\ (ParsedKind \notin LegalKinds /\ "call" \notin LegalKinds)
                => frame.ret = <<"fold", 0>>
        /\ (ParsedKind \in LegalKinds /\ ParsedKind # "raise")
                => frame.ret = <<ParsedKind, EngineAmount(ParsedKind)>>

\* C23 witness: a raise was asked for where only fold and call were legal.
C23_Witness ==
    /\ DeclareReturned
    /\ frame.response.kind = "text"
    /\ ParsedKind = "raise"
    /\ LegalKinds = {"fold", "call"}
    /\ frame.ret = <<"call", 0>>
    /\ game_state.action_history[1] = <<frame.name, "calls", 0>>


\* The thinking flag of a seat.
IsThinking(name) ==
    IF name = "Claude" THEN game_state.claude_is_thinking
    ELSE game_state.gpt_is_thinking

\* C24: the two thinking flags are never up together; both are down when a
\* hand has been entered; a seat's flag is up only while its own call of
\* declare_action sleeps, so it is down when the external model is called
\* and when the call has returned.
C24_SerializedDecisions ==
    /\ ~(game_state.claude_is_thinking /\ game_state.gpt_is_thinking)
    /\ pc = "bust_check" =>
            ~game_state.claude_is_thinking /\ ~game_state.gpt_is_thinking
    /\ \A name \in {"Claude", "GPT"} :
        IsThinking(name) =>
            /\ frame.fn = "declare_action"
            /\ frame.name = name
            /\ frame.pc = "sleeping"
    /\ (frame.fn = "declare_action" /\ frame.pc \in {"prompt", "returned"}) =>
            ~IsThinking(frame.name)

\* C24 witness: Claude's call sleeps after a call of GPT in the same hand
\* has returned.
C24_Witness ==
    /\ frame.fn = "declare_action"
    /\ frame.pc = "sleeping"
    /\ frame.name = "Claude"
    /\ "GPT" \in frame.asked
    /\ game_state.claude_is_thinking
    /\ ~game_state.gpt_is_thinking


\* The running call is the first entry into play_poker_hand after a match
\* reset: it found both stacks at 1000 and no hand counted in the match.
FirstEntryOfMatch ==
    /\ hand_path # "none"
    /\ pre.current_game_hands = 0
    /\ pre.claude_stack = 1000
    /\ pre.gpt_stack = 1000

\* C25 as claimed: the first entry into play_poker_hand after a match reset
\* does not take the pre-hand bust path, whatever the hand number.
C25_EveryMatchHasAHand == FirstEntryOfMatch => ~EngineNotInvoked


\* C26 as claimed: after a hand the engine completed, the seat recorded as
\* winner has at least the stack it had before the hand.
C26_WinnerDidNotLose ==
    (AtReturn /\ hand_path \in {"played", "post_bust"}) =>
        /\ game_state.winner = "Claude" => SettledClaude >= pre.claude_stack
        /\ game_state.winner = "GPT" => SettledGpt >= pre.gpt_stack


\* The running call of play_poker_hand reset the match.
CallResetMatch == hand_path \in {"pre_claude", "pre_gpt", "post_bust"}

\* The games won, when the running call is about to return: a call that
\* reset the match credited one seat one game, GPT when both seats were
\* below the big blind at the start; any other call credited nobody.
GamesWonAtReturn ==
    AtReturn =>
        LET claude == game_state.claude_games_won - pre.claude_games_won
            gpt == game_state.gpt_games_won - pre.gpt_games_won
        IN /\ CallResetMatch => <<claude, gpt>> \in {<<1, 0>>, <<0, 1>>}
           /\ (ClaudeBelowBlind /\ GptBelowBlind) => <<claude, gpt>> = <<0, 1>>
           /\ ~CallResetMatch => <<claude, gpt>> = <<0, 0>>
           /\ MatchIsReset => CallResetMatch

\* A step changes the games won only where a bust is found, by one game for
\* one seat, and never takes a game away.
GamesWonSteps ==
    LET claude == game_state'.claude_games_won - game_state.claude_games_won
        gpt == game_state'.gpt_games_won - game_state.gpt_games_won
    IN /\ <<claude, gpt>> \in {<<0, 0>>, <<1, 0>>, <<0, 1>>}
       /\ <<claude, gpt>> # <<0, 0>> =>
            /\ pc \in {"bust_check", "settle_gpt"}
            /\ pc' \in {"pre_reset_claude", "post_reset_claude"}

\* C27: every call of play_poker_hand that resets the match adds exactly 1
\* to exactly one of claude_games_won and gpt_games_won (to GPT's alone when
\* both seats are below the big blind at the start of the hand); no other
\* step changes the two counters and they never go down.
C27_GameWinAccounting == [](GamesWonAtReturn) /\ [][GamesWonSteps]_vars

\* C27 witness: a second match ends, both seats below the big blind.
C27_Witness ==
    /\ AtReturn
    /\ ClaudeBelowBlind
    /\ GptBelowBlind
    /\ pre.claude_games_won + pre.gpt_games_won > 0
    /\ game_state.gpt_games_won = pre.gpt_games_won + 1


\* A match has ended since the process started.
SomeMatchEnded == game_state.claude_games_won + game_state.gpt_games_won > 0

\* C28: when a call of play_poker_hand is about to return, shortest_game
\* and longest_game are both 0 if no match has ended and otherwise both
\* positive with shortest_game <= longest_game; a call that ended a match
\* of n hands leaves them at the minimum and the maximum of n and what they
\* were (n itself at the first match end) and any other call leaves them as
\* they were, so that they are the minimum and the maximum over all match
\* ends.
C28_ExtremesConsistent ==
    AtReturn =>
        /\ ~SomeMatchEnded =>
                game_state.shortest_game = 0 /\ game_state.longest_game = 0
        /\ SomeMatchEnded =>
                /\ game_state.shortest_game > 0
                /\ game_state.shortest_game <= game_state.longest_game
        /\ CallResetMatch =>
                /\ game_state.longest_game = ExpectedLongest
                /\ game_state.shortest_game = ExpectedShortest
                /\ game_state.shortest_game <= HandsThisGame
                /\ game_state.longest_game >= HandsThisGame
        /\ ~CallResetMatch =>
                /\ game_state.longest_game = pre.longest_game
                /\ game_state.shortest_game = pre.shortest_game

\* C28 witness: a match of one hand has ended after a match of two hands.
C28_Witness ==
    /\ AtReturn
    /\ CallResetMatch
    /\ HandsThisGame = 1
    /\ pre.shortest_game = 2
    /\ game_state.shortest_game = 1
    /\ game_state.longest_game = 2


\* The seat that is not name.
OtherSeat(name) == IF name = "Claude" THEN "GPT" ELSE "Claude"

\* The win probabilities in the store.
StoredEquity ==
    <<game_state.claude_win_probability, game_state.gpt_win_probability>>

\* C29: during a call of declare_action made while the engine has not yet
\* asked the other seat in the hand, the win probabilities in the store are
\* 50.0 and 50.0, before and after the call has computed them, whatever the
\* hole cards and the board; the other seat's cards in the store are empty.
C29_EquityEvenUntilBothActed ==
    (frame.fn = "declare_action" /\ OtherSeat(frame.name) \notin frame.asked) =>
        /\ StoredEquity = <<500, 500>>
        /\ frame.name = "Claude" => game_state.gpt_cards = <<>>
        /\ frame.name = "GPT" => game_state.claude_cards = <<>>

\* C29 witness: GPT's second decision of hand 2, on the river, Claude not
\* asked yet; hand 1 had left the cards of both seats in the store.
C29_Witness ==
    /\ frame.fn = "declare_action"
    /\ frame.pc = "returned"
    /\ frame.name = "GPT"
    /\ frame.asked = {"GPT"}
    /\ frame.deal.fault = "none"
    /\ Len(game_state.community_cards) = 5
    /\ Len(game_state.gpt_cards) = 2
    /\ game_state.hand_number = 2
    /\ StoredEquity = <<500, 500>>

====
